---------------------------- MODULE Spec2Model ----------------------------
(***************************************************************************)
(* Memory notes of codex-rs/core/src/memories.rs: the extraction turn      *)
(* (maybe_record_memories), the store parser (parse_memories), the         *)
(* candidate parser (parse_memory_candidates), the writer                  *)
(* (append_memories) and the path resolver.                                *)
(*                                                                         *)
(* Texts are TLA+ strings, used as sequences of characters (Len, SubSeq,   *)
(* \o).  A store file is a record [exists, data]: data is the file's bytes.*)
(* Every await of the source is one step of the turn that executes it, so  *)
(* that turns interleave, fail and are cancelled where the code can be.    *)
(***************************************************************************)
EXTENDS Naturals, Sequences, FiniteSets

(***************************************************************************)
(* Program constants (memories.rs:24-34).                                  *)
(***************************************************************************)
MEMORIES_HEADER == "## Memories"

MEMORIES_FILE_HEADER == "# Memories"
MAX_NEW_MEMORIES_PER_TURN == 6
NO_MEMORIES_RESPONSE == "NO_MEMORIES"

(***************************************************************************)
(* Bounds of the model.                                                    *)
(*   MaxBytesModel  the byte cap of a read, MEMORIES_MAX_BYTES, scaled     *)
(*                  down from 8 * 1024 so that files longer than the cap   *)
(*                  occur within the other bounds                          *)
(*   MaxEvents      item and delta events a stream delivers before it ends *)
(*   MaxFaults      I/O or transport failures injected in one behaviour    *)
(*   MaxCancels     turns cancelled in one behaviour                       *)
(***************************************************************************)
MaxBytesModel == 24
MaxEvents == 2
MaxFaults == 1
MaxCancels == 1

\* The lines of a text given to a parser.
MaxLines == 3

MEMORIES_MAX_BYTES == MaxBytesModel

(***************************************************************************)
(* str helpers: char::is_whitespace, str::trim, str::to_ascii_lowercase,   *)
(* str::lines, str::strip_prefix, as the standard library defines them on  *)
(* the characters that occur in the model.                                 *)
(***************************************************************************)
CharAt(s, i) == SubSeq(s, i, i)

IsWhitespace(c) == c \in {" ", "\n"}

RECURSIVE TrimStart(_)
TrimStart(s) ==
    IF Len(s) = 0 THEN s
    ELSE IF IsWhitespace(CharAt(s, 1)) THEN TrimStart(SubSeq(s, 2, Len(s)))
    ELSE s

RECURSIVE TrimEnd(_)
TrimEnd(s) ==
    IF Len(s) = 0 THEN s
    ELSE IF IsWhitespace(CharAt(s, Len(s))) THEN TrimEnd(SubSeq(s, 1, Len(s) - 1))
    ELSE s

Trim(s) == TrimEnd(TrimStart(s))

LowerChar(c) ==
    CASE c = "A" -> "a"
      [] c = "B" -> "b"
      [] c = "M" -> "m"
      [] c = "N" -> "n"
      [] c = "O" -> "o"
      [] c = "E" -> "e"
      [] c = "R" -> "r"
      [] c = "I" -> "i"
      [] c = "S" -> "s"
      [] OTHER -> c

RECURSIVE to_ascii_lowercase(_)
to_ascii_lowercase(s) ==
    IF Len(s) = 0 THEN s
    ELSE LowerChar(CharAt(s, 1)) \o to_ascii_lowercase(SubSeq(s, 2, Len(s)))

eq_ignore_ascii_case(s, t) == to_ascii_lowercase(s) = to_ascii_lowercase(t)

StartsWith(s, prefix) ==
    /\ Len(s) >= Len(prefix)
    /\ SubSeq(s, 1, Len(prefix)) = prefix

StripPrefix(s, prefix) == SubSeq(s, Len(prefix) + 1, Len(s))

\* The position of the first "\n" of s at or after i, or Len(s) + 1.
RECURSIVE LineEnd(_, _)
LineEnd(s, i) ==
    IF i > Len(s) THEN i
    ELSE IF CharAt(s, i) = "\n" THEN i
    ELSE LineEnd(s, i + 1)

\* str::lines: the lines of s without their "\n"; a final "\n" ends the last
\* line and starts no further one.
RECURSIVE Lines(_)
Lines(s) ==
    IF Len(s) = 0 THEN << >>
    ELSE LET e == LineEnd(s, 1)
         IN  << SubSeq(s, 1, e - 1) >> \o Lines(SubSeq(s, e + 1, Len(s)))

\* [String]::join.
RECURSIVE Join(_, _)
Join(strs, sep) ==
    IF Len(strs) = 0 THEN ""
    ELSE IF Len(strs) = 1 THEN strs[1]
    ELSE strs[1] \o sep \o Join(Tail(strs), sep)

IsBullet(line) == StartsWith(line, "- ") \/ StartsWith(line, "* ")

(***************************************************************************)
(* parse_memories (memories.rs:219-239).                                   *)
(***************************************************************************)
RECURSIVE StoreBullets(_)
StoreBullets(lines) ==
    IF Len(lines) = 0 THEN << >>
    ELSE LET trimmed == Trim(lines[1])
         IN  IF trimmed = "" \/ StartsWith(trimmed, "#") THEN StoreBullets(Tail(lines))
             ELSE IF IsBullet(trimmed)
                  THEN << Trim(StripPrefix(trimmed, "- ")) >> \o StoreBullets(Tail(lines))
                  ELSE StoreBullets(Tail(lines))

RECURSIVE StorePlainLines(_)
StorePlainLines(lines) ==
    IF Len(lines) = 0 THEN << >>
    ELSE LET trimmed == Trim(lines[1])
         IN  IF trimmed = "" \/ StartsWith(trimmed, "#") THEN StorePlainLines(Tail(lines))
             ELSE IF IsBullet(trimmed) THEN StorePlainLines(Tail(lines))
                  ELSE << trimmed >> \o StorePlainLines(Tail(lines))

\* Mutant: the plain lines are kept after the bullets.
parse_memories_KeepsPlainLines(text) ==
    StoreBullets(Lines(text)) \o StorePlainLines(Lines(text))

parse_memories(text) ==
    LET bullets == StoreBullets(Lines(text))
        lines   == StorePlainLines(Lines(text))
    IN  IF bullets # << >> THEN bullets ELSE lines

(***************************************************************************)
(* parse_memory_candidates (memories.rs:241-269).                          *)
(***************************************************************************)
RECURSIVE CandidateEntries(_)
CandidateEntries(lines) ==
    IF Len(lines) = 0 THEN << >>
    ELSE LET line == Trim(lines[1])
         IN  IF line = "" \/ eq_ignore_ascii_case(line, NO_MEMORIES_RESPONSE)
             THEN CandidateEntries(Tail(lines))
             ELSE IF IsBullet(line)
                  THEN << Trim(StripPrefix(line, "- ")) >> \o CandidateEntries(Tail(lines))
                  ELSE << line >> \o CandidateEntries(Tail(lines))

\* Mutant: the key of an entry is the entry, not lowercased.
RECURSIVE Deduped_CaseSensitive(_, _)
Deduped_CaseSensitive(entries, seen) ==
    IF Len(entries) = 0 THEN << >>
    ELSE IF entries[1] \in seen THEN Deduped_CaseSensitive(Tail(entries), seen)
         ELSE << entries[1] >> \o Deduped_CaseSensitive(Tail(entries), seen \cup {entries[1]})

\* The second loop: keep an entry when seen.insert(key) is true.
RECURSIVE Deduped(_, _)
Deduped(entries, seen) ==
    IF Len(entries) = 0 THEN << >>
    ELSE LET key == to_ascii_lowercase(entries[1])
         IN  IF key \in seen THEN Deduped(Tail(entries), seen)
             ELSE << entries[1] >> \o Deduped(Tail(entries), seen \cup {key})

parse_memory_candidates(text) ==
    LET trimmed == Trim(text)
    IN  IF trimmed = "" \/ eq_ignore_ascii_case(trimmed, NO_MEMORIES_RESPONSE)
        THEN << >>
        ELSE Deduped(CandidateEntries(Lines(trimmed)), {})

(***************************************************************************)
(* read_memories_file (memories.rs:194-217), on a file that fs::read       *)
(* returns or reports NotFound; the other errors of fs::read are the       *)
(* action ReadFailed.                                                      *)
(***************************************************************************)
\* Mutant: the leading bytes are kept, not the trailing ones.
ByteWindow_Head(data) ==
    IF Len(data) > MEMORIES_MAX_BYTES
    THEN SubSeq(data, 1, MEMORIES_MAX_BYTES)
    ELSE data

ByteWindow(data) ==
    IF Len(data) > MEMORIES_MAX_BYTES
    THEN SubSeq(data, Len(data) - MEMORIES_MAX_BYTES + 1, Len(data))
    ELSE data

read_memories_file(f) ==
    IF ~f.exists THEN << >>
    ELSE IF Len(f.data) = 0 THEN << >>
    ELSE parse_memories(ByteWindow(f.data))

(***************************************************************************)
(* append_memories, its synchronous part (memories.rs:302-318).            *)
(***************************************************************************)
\* Mutant: seen starts empty, not from the notes of the file.
ExistingKeys_Unseeded(existing) == {}

\* Mutant: the keys of the notes of the file are not lowercased.
ExistingKeys_CaseSensitive(existing) == { existing[i] : i \in 1..Len(existing) }

ExistingKeys(existing) == { to_ascii_lowercase(existing[i]) : i \in 1..Len(existing) }

\* Mutant: the key of an entry is not lowercased.
RECURSIVE Additions_CaseSensitive(_, _)
Additions_CaseSensitive(entries, seen) ==
    IF Len(entries) = 0 THEN << >>
    ELSE LET trimmed == Trim(entries[1])
         IN  IF trimmed = "" THEN Additions_CaseSensitive(Tail(entries), seen)
             ELSE IF trimmed \in seen THEN Additions_CaseSensitive(Tail(entries), seen)
             ELSE << trimmed >> \o Additions_CaseSensitive(Tail(entries), seen \cup {trimmed})

RECURSIVE Additions(_, _)
Additions(entries, seen) ==
    IF Len(entries) = 0 THEN << >>
    ELSE LET trimmed == Trim(entries[1])
             key     == to_ascii_lowercase(trimmed)
         IN  IF trimmed = "" THEN Additions(Tail(entries), seen)
             ELSE IF key \in seen THEN Additions(Tail(entries), seen)
             ELSE << trimmed >> \o Additions(Tail(entries), seen \cup {key})

\* The bytes of the write_all calls (memories.rs:338-347).
\* Mutant: nothing is written before the batch of a file that has bytes.
HeadBytes_NoSeparator(is_empty) == IF is_empty THEN MEMORIES_FILE_HEADER \o "\n" ELSE ""

HeadBytes(is_empty) == IF is_empty THEN MEMORIES_FILE_HEADER \o "\n" ELSE "\n"

EntryBytes(entry) == "- " \o entry \o "\n"

(***************************************************************************)
(* maybe_record_memories, its synchronous parts.                           *)
(***************************************************************************)
\* Mutant: only Exec is excluded.
should_record_memories_ExecOnly(src) == src # "Exec"

\* should_record_memories (memories.rs:165-170).
should_record_memories(src) == src \notin {"Exec", "SubAgent"}

\* collect_user_input_texts (memories.rs:284-294).
RECURSIVE collect_user_input_texts(_)
collect_user_input_texts(inputs) ==
    IF Len(inputs) = 0 THEN << >>
    ELSE IF inputs[1].kind = "Text" /\ Trim(inputs[1].text) # ""
         THEN << inputs[1].text >> \o collect_user_input_texts(Tail(inputs))
         ELSE collect_user_input_texts(Tail(inputs))

\* Mutant: the deltas come first when there are any.
RawOutput_DeltasFirst(output_items, streamed_text) ==
    IF streamed_text # "" THEN streamed_text ELSE Join(output_items, "\n")

\* memories.rs:142-146.
RawOutput(output_items, streamed_text) ==
    IF output_items = << >> THEN streamed_text ELSE Join(output_items, "\n")

\* Mutant: the candidates are not truncated.
TruncateCandidates_None(candidates) == candidates

\* memories.rs:152-154.
TruncateCandidates(candidates) ==
    IF Len(candidates) > MAX_NEW_MEMORIES_PER_TURN
    THEN SubSeq(candidates, 1, MAX_NEW_MEMORIES_PER_TURN)
    ELSE candidates

\* repo_memories_path (memories.rs:188-192): the project path of a working
\* directory inside a repository, none outside one.  In "home_repo" the
\* repository root is the parent of codex_home, so that its .codex/memories.md
\* is the global path.
repo_memories_path(dir) ==
    IF dir = "in_repo" THEN "project"
    ELSE IF dir = "home_repo" THEN "global"
    ELSE "none"

\* memory_write_path (memories.rs:184-186).
memory_write_path(dir) ==
    IF repo_memories_path(dir) # "none" THEN repo_memories_path(dir) ELSE "global"

\* memory_paths (memories.rs:172-182).
memory_paths(dir) ==
    IF repo_memories_path(dir) \notin {"none", "global"}
    THEN << "global", repo_memories_path(dir) >>
    ELSE << "global" >>

(***************************************************************************)
(* read_memories_for_instructions, its synchronous parts.                  *)
(***************************************************************************)
\* Mutant: seen is not consulted, every non-blank value is pushed.
RECURSIVE MergeValues_NoSeen(_, _)
MergeValues_NoSeen(values, acc) ==
    IF Len(values) = 0 THEN acc
    ELSE LET trimmed == Trim(values[1])
         IN  IF trimmed = "" THEN MergeValues_NoSeen(Tail(values), acc)
             ELSE MergeValues_NoSeen(Tail(values),
                      [entries |-> Append(acc.entries, trimmed),
                       seen    |-> acc.seen \cup {to_ascii_lowercase(trimmed)}])

\* The loop over the values of one path (memories.rs:44-54); acc is entries
\* and seen.
RECURSIVE MergeValues(_, _)
MergeValues(values, acc) ==
    IF Len(values) = 0 THEN acc
    ELSE LET trimmed == Trim(values[1])
             key     == to_ascii_lowercase(trimmed)
         IN  IF trimmed = "" THEN MergeValues(Tail(values), acc)
             ELSE IF key \in acc.seen THEN MergeValues(Tail(values), acc)
             ELSE MergeValues(Tail(values),
                      [entries |-> Append(acc.entries, trimmed),
                       seen    |-> acc.seen \cup {key}])

\* lines.push(format!("- {entry}")) for each entry (memories.rs:278-280).
RECURSIVE SectionLines(_)
SectionLines(entries) ==
    IF Len(entries) = 0 THEN << >>
    ELSE << "- " \o entries[1] >> \o SectionLines(Tail(entries))

\* Option<String>.
None == [some |-> FALSE, value |-> ""]

Some(value) == [some |-> TRUE, value |-> value]

\* build_memories_section (memories.rs:271-282).
build_memories_section(entries) ==
    IF entries = << >> THEN None
    ELSE Some(Join(<< MEMORIES_HEADER >> \o SectionLines(entries), "\n"))

(***************************************************************************)
(* The state.                                                              *)
(*   files    the store files: path -> [exists, data]                      *)
(*   pc       where each turn's maybe_record_memories is: "idle" before    *)
(*            the call, the await it is suspended at, "returned" or        *)
(*            "cancelled"                                                  *)
(*   cwd      the working directory of the session's turns                 *)
(*   ctx      the arguments of the call: the session source of the turn    *)
(*            context, and the inputs                                      *)
(*   stream   the locals of the stream loop: output_items, streamed_text   *)
(*            and the number of item and delta events consumed             *)
(*   call     the locals of append_memories: path, entries, existing,      *)
(*            additions, is_empty, next (the addition to write next) and   *)
(*            truncated (the read took the over-cap branch); parsed is     *)
(*            candidates.len() before the truncation                       *)
(*   ret      where the call returned and the count append_memories gave   *)
(*   sess     the session trackers: whether a rate-limit snapshot is held, *)
(*            and the turns whose token usage was added                    *)
(*   wrote    history: the bytes each call has appended to its file        *)
(*   raced    history: some call read its file while another call on the   *)
(*            same file was between its read and the end of its append     *)
(*   faults, cancels   the failures and cancellations so far               *)
(*   config_cwd   the working directory of the Config the Reader is given  *)
(*   rd       read_memories_for_instructions: where it is, its paths, the  *)
(*            index of the path it reads next, its entries and seen, what  *)
(*            each read gave (history) and the block it returned           *)
(*   input, parsed  a text, and what a parser applied to it returned       *)
(***************************************************************************)
VARIABLES files, cwd, pc, ctx, stream, call, ret, sess, wrote, raced, faults, cancels,
          config_cwd, rd, input, parsed

vars == << files, cwd, pc, ctx, stream, call, ret, sess, wrote, raced, faults, cancels,
           config_cwd, rd, input, parsed >>

Turns == {"t1", "t2"}

Paths == {"global", "project"}

Sources == {"Cli", "Exec", "SubAgent"}

Dirs == {"in_repo", "outside", "home_repo"}

\* The inputs of a turn: &[UserInput].
InputLists ==
    { << >>,
      << [kind |-> "Image", text |-> ""] >>,
      << [kind |-> "Text", text |-> "  "] >>,
      << [kind |-> "Text", text |-> "a b"], [kind |-> "Image", text |-> ""] >> }

\* The texts of finished message items and of text deltas a model delivers.
\* LongItemTexts has more notes than MAX_NEW_MEMORIES_PER_TURN; it is left
\* to the turns that run one after another.
ItemTexts == { "A\nab" }

LongItemTexts == { "a\nb\nc\nd\ne\nf\ng" }

DeltaTexts == { "- b", "\nc" }

\* The store file a turn can find: absent, plain note lines only, header
\* and bullets.
Absent == [exists |-> FALSE, data |-> ""]

StoreContents ==
    { Absent,
      [exists |-> TRUE, data |-> "a\n"],
      [exists |-> TRUE, data |-> "# Memories\n- A\n"] }

\* The working directory of the session and the store file of its write
\* path: every store of a project, a new global store.
InitCases ==
    { << "in_repo", store >> : store \in StoreContents } \cup { << "outside", Absent >> }

\* arrived is history: the item and delta events consumed, in their order,
\* kept until the read of append_memories is over.
NoStream == [output_items |-> << >>, streamed_text |-> "", events |-> 0,
             arrived |-> << >>]

NoCall == [path |-> "none", parsed |-> 0, entries |-> << >>, existing |-> << >>,
           additions |-> << >>, is_empty |-> FALSE, next |-> 0,
           truncated |-> FALSE]

NoRet == [at |-> "none", count |-> 0]

\* reads and began_after are history: what the read of each path gave, and
\* the turns whose call had returned Ok when the Reader was called.
NoRead == [pc |-> "idle", paths |-> << >>, next |-> 0, entries |-> << >>,
           seen |-> {}, reads |-> << >>, began_after |-> {}, section |-> None]

NotParsed == [by |-> "none", out |-> << >>]

Init ==
    /\ \E c \in InitCases :
          /\ cwd = c[1]
          /\ files = [p \in Paths |-> IF p = memory_write_path(c[1]) THEN c[2]
                                      ELSE Absent]
    /\ pc = [t \in Turns |-> "idle"]
    /\ config_cwd = cwd
    /\ rd = NoRead
    /\ input = ""
    /\ parsed = NotParsed
    /\ ctx = [t \in Turns |-> [source |-> "none", inputs |-> << >>]]
    /\ stream = [t \in Turns |-> NoStream]
    /\ call = [t \in Turns |-> NoCall]
    /\ ret = [t \in Turns |-> NoRet]
    /\ sess = [rate_limits |-> FALSE, token_usage |-> {}]
    /\ wrote = [t \in Turns |-> ""]
    /\ raced = FALSE
    /\ faults = 0
    /\ cancels = 0

\* The awaits of append_memories after its read.
AppendPcs == {"create_dir", "metadata", "open", "write_head", "write_entry"}

\* Every await of maybe_record_memories.
AwaitPcs == {"stream", "next", "read"} \cup AppendPcs

\* The call returns at `at`; the texts of its stream are dropped.
Return(t, at, n) ==
    /\ pc' = [pc EXCEPT ![t] = "returned"]
    /\ ret' = [ret EXCEPT ![t] = [at |-> at, count |-> n]]
    /\ stream' = [stream EXCEPT ![t] = [NoStream EXCEPT !.events = stream[t].events]]

(***************************************************************************)
(* maybe_record_memories up to its first await (memories.rs:64-98).        *)
(***************************************************************************)
StartTurn(t, src, inputs) ==
    /\ pc[t] = "idle"
    /\ ctx' = [ctx EXCEPT ![t] = [source |-> src, inputs |-> inputs]]
    /\ IF ~should_record_memories(src)
       THEN Return(t, "skipped", 0)
       ELSE IF collect_user_input_texts(inputs) = << >>
            THEN Return(t, "no_input", 0)
            ELSE /\ pc' = [pc EXCEPT ![t] = "stream"]
                 /\ UNCHANGED << ret, stream >>
    /\ UNCHANGED << files, cwd, call, sess, wrote, raced, faults, cancels,
                    config_cwd, rd, input, parsed >>

\* client.stream(&prompt).await (memories.rs:98-104).
StreamStarted(t) ==
    /\ pc[t] = "stream"
    /\ pc' = [pc EXCEPT ![t] = "next"]
    /\ UNCHANGED << files, cwd, ctx, stream, call, ret, sess, wrote, raced, faults, cancels,
                    config_cwd, rd, input, parsed >>

StreamStartFailed(t) ==
    /\ pc[t] = "stream"
    /\ Return(t, "start_failed", 0)
    /\ UNCHANGED << files, cwd, ctx, call, sess, wrote, raced, faults, cancels,
                    config_cwd, rd, input, parsed >>

(***************************************************************************)
(* The stream loop (memories.rs:109-140): one action per event.            *)
(***************************************************************************)
MoreEvents(t) == pc[t] = "next" /\ stream[t].events < MaxEvents

\* OutputItemDone of a message whose content has text.
OnOutputItemDone(t, item_text) ==
    /\ MoreEvents(t)
    /\ stream' = [stream EXCEPT ![t].output_items = Append(@, item_text),
                                ![t].events = @ + 1,
                                ![t].arrived = Append(@, [kind |-> "item", text |-> item_text])]
    /\ UNCHANGED << files, cwd, pc, ctx, call, ret, sess, wrote, raced, faults, cancels,
                    config_cwd, rd, input, parsed >>

OnOutputTextDelta(t, delta) ==
    /\ MoreEvents(t)
    /\ stream' = [stream EXCEPT ![t].streamed_text = @ \o delta,
                                ![t].events = @ + 1,
                                ![t].arrived = Append(@, [kind |-> "delta", text |-> delta])]
    /\ UNCHANGED << files, cwd, pc, ctx, call, ret, sess, wrote, raced, faults, cancels,
                    config_cwd, rd, input, parsed >>

OnRateLimits(t) ==
    /\ pc[t] = "next"
    /\ sess' = [sess EXCEPT !.rate_limits = TRUE]
    /\ UNCHANGED << files, cwd, pc, ctx, stream, call, ret, wrote, raced, faults, cancels,
                    config_cwd, rd, input, parsed >>

\* Ok(_): any other event, and an OutputItemDone that is no message or has
\* no text.
OnOtherEvent(t) ==
    /\ pc[t] = "next"
    /\ UNCHANGED vars

\* After the loop (memories.rs:142-157) and into append_memories, up to its
\* read (memories.rs:296-301).
AfterLoop(t) ==
    LET raw_output == RawOutput(stream[t].output_items, stream[t].streamed_text)
        candidates == parse_memory_candidates(raw_output)
        entries    == TruncateCandidates(candidates)
    IN  IF candidates = << >>
        THEN /\ Return(t, "no_candidates", 0)
             /\ UNCHANGED call
        ELSE IF entries = << >>
        THEN /\ Return(t, "ok", 0)
             /\ UNCHANGED call
        ELSE /\ pc' = [pc EXCEPT ![t] = "read"]
             /\ stream' = [stream EXCEPT ![t] = [NoStream EXCEPT !.arrived = stream[t].arrived]]
             /\ call' = [call EXCEPT ![t].path = memory_write_path(cwd),
                                     ![t].parsed = Len(candidates),
                                     ![t].entries = entries]
             /\ UNCHANGED ret

OnCompleted(t) ==
    /\ pc[t] = "next"
    /\ sess' = [sess EXCEPT !.token_usage = @ \cup {t}]
    /\ AfterLoop(t)
    /\ UNCHANGED << files, cwd, ctx, wrote, raced, faults, cancels,
                    config_cwd, rd, input, parsed >>

OnStreamError(t) ==
    /\ pc[t] = "next"
    /\ Return(t, "stream_error", 0)
    /\ UNCHANGED << files, cwd, ctx, call, sess, wrote, raced, faults, cancels,
                    config_cwd, rd, input, parsed >>

\* Mutant: a closed stream ends the loop like a completion does.
OnStreamClosed_Break(t) ==
    /\ pc[t] = "next"
    /\ AfterLoop(t)
    /\ UNCHANGED << files, cwd, ctx, sess, wrote, raced, faults, cancels,
                    config_cwd, rd, input, parsed >>

OnStreamClosed(t) ==
    /\ pc[t] = "next"
    /\ Return(t, "stream_closed", 0)
    /\ UNCHANGED << files, cwd, ctx, call, sess, wrote, raced, faults, cancels,
                    config_cwd, rd, input, parsed >>

(***************************************************************************)
(* append_memories (memories.rs:296-350): one action per await.            *)
(***************************************************************************)
\* What is kept for the record once append_memories is over: its path and
\* whether its read was cut to the byte window; of a call that returned Ok,
\* its entries too.
Dropped(c) == [NoCall EXCEPT !.path = c.path, !.truncated = c.truncated]

DroppedOk(c) == [Dropped(c) EXCEPT !.parsed = c.parsed, !.entries = c.entries]

\* read_memories_file(path).await? and the loop over the entries
\* (memories.rs:301-322).
ReadExisting(t) ==
    /\ pc[t] = "read"
    /\ LET f         == files[call[t].path]
           existing  == read_memories_file(f)
           additions == Additions(call[t].entries, ExistingKeys(existing))
           truncated == f.exists /\ Len(f.data) > MEMORIES_MAX_BYTES
       IN  IF additions = << >>
           THEN /\ Return(t, "ok", 0)
                /\ call' = [call EXCEPT ![t] = [DroppedOk(@) EXCEPT !.truncated = truncated]]
           ELSE /\ pc' = [pc EXCEPT ![t] = "create_dir"]
                /\ call' = [call EXCEPT ![t].existing = existing,
                                        ![t].additions = additions,
                                        ![t].truncated = truncated]
                /\ stream' = [stream EXCEPT ![t] = NoStream]
                /\ UNCHANGED ret
    /\ raced' = (raced \/ \E u \in Turns \ {t} :
                              pc[u] \in AppendPcs /\ call[u].path = call[t].path)
    /\ UNCHANGED << files, cwd, ctx, sess, wrote, faults, cancels,
                    config_cwd, rd, input, parsed >>

\* fs::create_dir_all(dir).await? (memories.rs:324-325).
CreateDir(t) ==
    /\ pc[t] = "create_dir"
    /\ pc' = [pc EXCEPT ![t] = "metadata"]
    /\ UNCHANGED << files, cwd, ctx, stream, call, ret, sess, wrote, raced, faults, cancels,
                    config_cwd, rd, input, parsed >>

\* fs::metadata(path).await (memories.rs:327-331).
Metadata(t) ==
    /\ pc[t] = "metadata"
    /\ LET f == files[call[t].path]
       IN  call' = [call EXCEPT ![t].is_empty = (~f.exists \/ Len(f.data) = 0)]
    /\ pc' = [pc EXCEPT ![t] = "open"]
    /\ UNCHANGED << files, cwd, ctx, stream, ret, sess, wrote, raced, faults, cancels,
                    config_cwd, rd, input, parsed >>

\* OpenOptions::new().create(true).append(true).open(path) (memories.rs:333-337):
\* the file exists afterwards, with the bytes it had.
\* Mutant: the file is opened with truncate(true).
OpenedFile_Truncate(f) == [exists |-> TRUE, data |-> ""]

OpenedFile(f) == [exists |-> TRUE, data |-> f.data]

Open(t) ==
    /\ pc[t] = "open"
    /\ files' = [files EXCEPT ![call[t].path] = OpenedFile(@)]
    /\ pc' = [pc EXCEPT ![t] = "write_head"]
    /\ UNCHANGED << cwd, ctx, stream, call, ret, sess, wrote, raced, faults, cancels,
                    config_cwd, rd, input, parsed >>

\* A write in append mode puts the bytes at the end of the file.
Appended(f, bytes) == [f EXCEPT !.data = @ \o bytes]

\* The header or the separator (memories.rs:338-343).
WriteHead(t) ==
    /\ pc[t] = "write_head"
    /\ files' = [files EXCEPT ![call[t].path] = Appended(@, HeadBytes(call[t].is_empty))]
    /\ wrote' = [wrote EXCEPT ![t] = @ \o HeadBytes(call[t].is_empty)]
    /\ call' = [call EXCEPT ![t].next = 1]
    /\ pc' = [pc EXCEPT ![t] = "write_entry"]
    /\ UNCHANGED << cwd, ctx, stream, ret, sess, raced, faults, cancels,
                    config_cwd, rd, input, parsed >>

\* One turn of the loop over the additions (memories.rs:345-347), and the
\* return after the last (memories.rs:349).
WriteEntry(t) ==
    /\ pc[t] = "write_entry"
    /\ LET bytes == EntryBytes(call[t].additions[call[t].next])
       IN  /\ files' = [files EXCEPT ![call[t].path] = Appended(@, bytes)]
           /\ wrote' = [wrote EXCEPT ![t] = @ \o bytes]
    /\ IF call[t].next = Len(call[t].additions)
       THEN /\ Return(t, "ok", Len(call[t].additions))
            /\ call' = [call EXCEPT ![t] = DroppedOk(@)]
       ELSE /\ call' = [call EXCEPT ![t].next = @ + 1]
            /\ UNCHANGED << pc, ret, stream >>
    /\ UNCHANGED << cwd, ctx, sess, raced, faults, cancels,
                    config_cwd, rd, input, parsed >>

\* An I/O error of the read, of create_dir_all, of metadata or of open: the
\* `?` returns it, maybe_record_memories logs it (memories.rs:157-162).
IoError(t) ==
    /\ pc[t] \in {"read", "create_dir", "metadata", "open"}
    /\ faults < MaxFaults
    /\ faults' = faults + 1
    /\ Return(t, "append_error", 0)
    /\ call' = [call EXCEPT ![t] = Dropped(@)]
    /\ UNCHANGED << files, cwd, ctx, sess, wrote, raced, cancels,
                    config_cwd, rd, input, parsed >>

\* An I/O error of a write_all: the first k bytes of its buffer are in the
\* file, the rest is not.
WriteError(t) ==
    /\ pc[t] \in {"write_head", "write_entry"}
    /\ faults < MaxFaults
    /\ LET bytes == IF pc[t] = "write_head"
                    THEN HeadBytes(call[t].is_empty)
                    ELSE EntryBytes(call[t].additions[call[t].next])
       IN  \E k \in 0..(Len(bytes) - 1) :
              /\ files' = [files EXCEPT ![call[t].path] = Appended(@, SubSeq(bytes, 1, k))]
              /\ wrote' = [wrote EXCEPT ![t] = @ \o SubSeq(bytes, 1, k)]
    /\ faults' = faults + 1
    /\ Return(t, "append_error", 0)
    /\ call' = [call EXCEPT ![t] = Dropped(@)]
    /\ UNCHANGED << cwd, ctx, sess, raced, cancels,
                    config_cwd, rd, input, parsed >>

\* The enclosing turn is cancelled: the future of maybe_record_memories is
\* dropped at the await it is suspended at.
Cancel(t) ==
    /\ pc[t] \in AwaitPcs
    /\ cancels < MaxCancels
    /\ cancels' = cancels + 1
    /\ pc' = [pc EXCEPT ![t] = "cancelled"]
    /\ stream' = [stream EXCEPT ![t] = NoStream]
    /\ call' = [call EXCEPT ![t] = Dropped(@)]
    /\ UNCHANGED << files, cwd, ctx, ret, sess, wrote, raced, faults,
                    config_cwd, rd, input, parsed >>

\* The steps of a turn after its start; items are the item texts its model
\* can deliver.
Run(t, items) ==
    \/ StreamStarted(t)
    \/ StreamStartFailed(t)
    \/ \E item_text \in items : OnOutputItemDone(t, item_text)
    \/ \E delta \in DeltaTexts : OnOutputTextDelta(t, delta)
    \/ OnRateLimits(t)
    \/ OnOtherEvent(t)
    \/ OnCompleted(t)
    \/ OnStreamError(t)
    \/ OnStreamClosed(t)
    \/ ReadExisting(t)
    \/ CreateDir(t)
    \/ Metadata(t)
    \/ Open(t)
    \/ WriteHead(t)
    \/ WriteEntry(t)
    \/ IoError(t)
    \/ WriteError(t)
    \/ Cancel(t)

Next ==
    \E t \in Turns :
        \/ \E src \in Sources, inputs \in InputLists : StartTurn(t, src, inputs)
        \/ Run(t, ItemTexts)

Spec == Init /\ [][Next]_vars

\* The turns one after another: a turn starts when no other is in its call.
StartTurnAlone(t, src, inputs) ==
    /\ \A u \in Turns \ {t} : pc[u] \notin AwaitPcs
    /\ StartTurn(t, src, inputs)

NextSeq ==
    \E t \in Turns :
        \/ \E src \in Sources, inputs \in InputLists : StartTurnAlone(t, src, inputs)
        \/ Run(t, ItemTexts \cup LongItemTexts)

SeqSpec == Init /\ [][NextSeq]_vars

(***************************************************************************)
(* read_memories_for_instructions (memories.rs:36-62): one action per      *)
(* await.                                                                  *)
(***************************************************************************)
\* Up to the first read_memories_file(&path).await (memories.rs:37-42).
ReaderStart ==
    /\ rd.pc = "idle"
    /\ rd' = [NoRead EXCEPT !.pc = "reading",
                            !.paths = memory_paths(config_cwd),
                            !.next = 1,
                            !.began_after = { t \in Turns : pc[t] = "returned" /\ ret[t].at = "ok" }]
    /\ UNCHANGED << files, cwd, pc, ctx, stream, call, ret, sess, wrote, raced, faults, cancels,
                    config_cwd, input, parsed >>

\* After the match on one read: the next path, or build_memories_section
\* after the last (memories.rs:41, 61).
ReaderAfterRead(acc, read) ==
    rd' = [rd EXCEPT !.entries = acc.entries,
                     !.seen = acc.seen,
                     !.reads = Append(@, read),
                     !.next = @ + 1,
                     !.pc = IF rd.next = Len(rd.paths) THEN "done" ELSE "reading",
                     !.section = IF rd.next = Len(rd.paths)
                                 THEN build_memories_section(acc.entries)
                                 ELSE None]

\* Ok(values) (memories.rs:43-55).
ReaderRead ==
    /\ rd.pc = "reading"
    /\ LET path   == rd.paths[rd.next]
           values == read_memories_file(files[path])
       IN  ReaderAfterRead(MergeValues(values, [entries |-> rd.entries, seen |-> rd.seen]),
                           [path |-> path, ok |-> TRUE, values |-> values])
    /\ UNCHANGED << files, cwd, pc, ctx, stream, call, ret, sess, wrote, raced, faults, cancels,
                    config_cwd, input, parsed >>

\* Mutant: a failed read ends the Reader with nothing.
ReaderReadFailed_Abort(path) ==
    rd' = [rd EXCEPT !.entries = << >>, !.seen = {},
                     !.reads = Append(@, [path |-> path, ok |-> FALSE, values |-> << >>]),
                     !.pc = "done", !.section = None]

\* Err(err): the warning, and on to the next path (memories.rs:56-58).
ReaderReadFailed(path) ==
    ReaderAfterRead([entries |-> rd.entries, seen |-> rd.seen],
                    [path |-> path, ok |-> FALSE, values |-> << >>])

\* fs::read fails with an error that is not NotFound.
ReaderReadError ==
    /\ rd.pc = "reading"
    /\ faults < MaxFaults
    /\ faults' = faults + 1
    /\ ReaderReadFailed(rd.paths[rd.next])
    /\ UNCHANGED << files, cwd, pc, ctx, stream, call, ret, sess, wrote, raced, cancels,
                    config_cwd, input, parsed >>

\* The store files a Reader and a turn can find: the same key in two
\* casings in the two files; a project file longer than the cap, its first
\* note before the byte window, and a global file of plain lines; a global
\* file without notes; no file.
StorePairs ==
    { [global  |-> [exists |-> TRUE, data |-> "- a\n- c\n"],
       project |-> [exists |-> TRUE, data |-> "# Memories\n- A\n"]],
      [global  |-> [exists |-> TRUE, data |-> "x\n a \n"],
       project |-> [exists |-> TRUE, data |-> "- g\n- A\n\n- b\n- c\n- d\n- e\n- f\n"]],
      [global  |-> [exists |-> TRUE, data |-> "# Memories\n\n"],
       project |-> Absent],
      [global  |-> Absent, project |-> Absent] }

\* The responses of the model of a turn that runs beside the Reader.
ReaderItemTexts == { "A\nab", "- NO_MEMORIES\ng" }

InitReader ==
    /\ files \in StorePairs
    /\ cwd \in Dirs
    /\ config_cwd \in Dirs
    /\ pc = [t \in Turns |-> "idle"]
    /\ rd = NoRead
    /\ input = ""
    /\ parsed = NotParsed
    /\ ctx = [t \in Turns |-> [source |-> "none", inputs |-> << >>]]
    /\ stream = [t \in Turns |-> NoStream]
    /\ call = [t \in Turns |-> NoCall]
    /\ ret = [t \in Turns |-> NoRet]
    /\ sess = [rate_limits |-> FALSE, token_usage |-> {}]
    /\ wrote = [t \in Turns |-> ""]
    /\ raced = FALSE
    /\ faults = 0
    /\ cancels = 0

\* One turn and one call of the Reader, in any interleaving.
NextReader ==
    \/ \E src \in Sources, inputs \in InputLists : StartTurn("t1", src, inputs)
    \/ Run("t1", ReaderItemTexts)
    \/ ReaderStart
    \/ ReaderRead
    \/ ReaderReadError

ReaderSpec == InitReader /\ [][NextReader]_vars

(***************************************************************************)
(* The parsers on their own: parse_memories (memories.rs:219-239) and      *)
(* parse_memory_candidates (memories.rs:241-269) applied to a text.        *)
(***************************************************************************)
\* The lines a text is made of: blank, plain in two casings, padded, with
\* either marker, with a marker and more spaces, a heading, the sentinel in
\* two casings and behind a marker.
LineTokens ==
    { "", "  ", "a", "A", " a ", "- a", "* b", "-  b", "# h",
      "NO_MEMORIES", "no_memories", "- NO_MEMORIES" }

Texts ==
    { Join(ls, "\n") : ls \in UNION { [1..n -> LineTokens] : n \in 1..MaxLines } }

InitParse ==
    /\ input \in Texts
    /\ parsed = NotParsed
    /\ files = [p \in Paths |-> Absent]
    /\ cwd = "outside"
    /\ config_cwd = "outside"
    /\ pc = [t \in Turns |-> "idle"]
    /\ rd = NoRead
    /\ ctx = [t \in Turns |-> [source |-> "none", inputs |-> << >>]]
    /\ stream = [t \in Turns |-> NoStream]
    /\ call = [t \in Turns |-> NoCall]
    /\ ret = [t \in Turns |-> NoRet]
    /\ sess = [rate_limits |-> FALSE, token_usage |-> {}]
    /\ wrote = [t \in Turns |-> ""]
    /\ raced = FALSE
    /\ faults = 0
    /\ cancels = 0

ParseMemories ==
    /\ parsed.by = "none"
    /\ parsed' = [by |-> "parse_memories", out |-> parse_memories(input)]
    /\ UNCHANGED << files, cwd, pc, ctx, stream, call, ret, sess, wrote, raced, faults, cancels,
                    config_cwd, rd, input >>

ParseMemoryCandidates ==
    /\ parsed.by = "none"
    /\ parsed' = [by |-> "parse_memory_candidates", out |-> parse_memory_candidates(input)]
    /\ UNCHANGED << files, cwd, pc, ctx, stream, call, ret, sess, wrote, raced, faults, cancels,
                    config_cwd, rd, input >>

NextParse == ParseMemories \/ ParseMemoryCandidates

ParseSpec == InitParse /\ [][NextParse]_vars

(***************************************************************************)
(* Notions the claims are stated with.                                     *)
(***************************************************************************)
IsPrefix(s, t) == Len(s) <= Len(t) /\ SubSeq(t, 1, Len(s)) = s

Key(note) == to_ascii_lowercase(Trim(note))

NoDupKeys(notes) ==
    \A i, j \in 1..Len(notes) : i # j => Key(notes[i]) # Key(notes[j])

Range(seq) == { seq[i] : i \in 1..Len(seq) }

\* The bytes of text up to its last "\n": the write_all calls that completed.
RECURSIVE CompleteLines(_)
CompleteLines(text) ==
    IF Len(text) = 0 THEN text
    ELSE IF CharAt(text, Len(text)) = "\n" THEN text
    ELSE CompleteLines(SubSeq(text, 1, Len(text) - 1))

\* The notes whose bullet line a call has written whole.
WrittenNotes(t) == StoreBullets(Lines(CompleteLines(wrote[t])))

Aborted == {"start_failed", "stream_error", "stream_closed"}

(***************************************************************************)
(* C1: a store file is created or changed only by a step of a turn that    *)
(* has consumed a Completed event and is inside append_memories; a call    *)
(* whose stream failed to start, delivered an error or closed before a     *)
(* Completed event has consumed none, has written nothing and holds no     *)
(* append_memories state, whatever events it consumed before.              *)
(***************************************************************************)
C1_WriteOnlyAfterCompleted ==
    /\ [][ files' # files =>
             \E t \in Turns : /\ t \in sess.token_usage
                              /\ pc[t] \in AppendPcs
                              /\ pc'[t] \notin {"cancelled"}
                              /\ wrote'[t] # wrote[t] \/ pc[t] = "open" ]_vars
    /\ [](\A t \in Turns :
            /\ (pc[t] \in {"read"} \cup AppendPcs \/ wrote[t] # "")
                  => t \in sess.token_usage
            /\ ret[t].at \in Aborted
                  => /\ t \notin sess.token_usage
                     /\ wrote[t] = ""
                     /\ call[t] = NoCall)

\* A stream that closed after item or delta events, and nothing written.
C1_Witness ==
    \E t \in Turns : /\ ret[t].at = "stream_closed"
                     /\ stream[t].events > 0
                     /\ wrote[t] = ""
                     /\ \A p \in Paths : ~files[p].exists

(***************************************************************************)
(* C3: in every append_memories call, the key of each addition differs     *)
(* from the key of every note the call read from its file and from the key *)
(* of every other addition; each addition is the trimmed first entry of    *)
(* its key, and the additions are in the entries' order; the notes written *)
(* so far are the first additions in order, and the count returned is the  *)
(* number of bullet lines the call wrote.                                  *)
(***************************************************************************)
FirstPos(entries, note) ==
    CHOOSE k \in 1..Len(entries) :
        /\ Key(entries[k]) = Key(note)
        /\ \A k2 \in 1..(k - 1) : Key(entries[k2]) # Key(note)

C3_AdditionsAreNew ==
    \A t \in Turns :
        /\ pc[t] \in AppendPcs =>
              LET ex == call[t].existing
                  ad == call[t].additions
                  en == call[t].entries
              IN  /\ ad # << >>
                  /\ \A i \in 1..Len(ad), j \in 1..Len(ex) : Key(ad[i]) # Key(ex[j])
                  /\ NoDupKeys(ad)
                  /\ \A i \in 1..Len(ad) :
                        /\ \E k \in 1..Len(en) : Key(en[k]) = Key(ad[i])
                        /\ ad[i] = Trim(en[FirstPos(en, ad[i])])
                  /\ \A i, j \in 1..Len(ad) :
                        i < j => FirstPos(en, ad[i]) < FirstPos(en, ad[j])
                  /\ WrittenNotes(t) =
                        IF pc[t] = "write_entry" THEN SubSeq(ad, 1, call[t].next - 1)
                        ELSE << >>
        /\ ret[t].at = "ok" =>
              /\ ret[t].count = Len(WrittenNotes(t))
              /\ ret[t].count = Len(StoreBullets(Lines(wrote[t])))
              /\ Range(WrittenNotes(t)) \subseteq { Trim(e) : e \in Range(call[t].entries) }

\* A call that dropped an entry whose key a note of the file has ("A"), in
\* another casing or not, and wrote the other.
C3_Witness ==
    \E t \in Turns :
        /\ ret[t].at = "ok"
        /\ ret[t].count = 1
        /\ Len(call[t].entries) = 2
        /\ WrittenNotes(t) = << "ab" >>

(***************************************************************************)
(* C5: no step removes a store file or changes the bytes it holds: the     *)
(* content of every file before a step is a prefix of its content after.   *)
(***************************************************************************)
C5_AppendOnly ==
    [][ \A p \in Paths :
          /\ files[p].exists => files'[p].exists
          /\ IsPrefix(files[p].data, files'[p].data) ]_vars

\* A call has appended a batch to a store that held a note.
C5_Witness ==
    \E t \in Turns :
        /\ ret[t].at = "ok"
        /\ ret[t].count > 0
        /\ files[call[t].path].data = "# Memories\n- A\n" \o wrote[t]

(***************************************************************************)
(* C7: a call whose session source is Exec or SubAgent returns at once:    *)
(* it starts no stream, leaves the session trackers and the store files as *)
(* they are, and holds no stream or append_memories state; a call of       *)
(* another source requests the stream exactly when one of its inputs is a  *)
(* text with a character that is no whitespace.                            *)
(***************************************************************************)
Excluded == {"Exec", "SubAgent"}

HasText(inputs) ==
    \E i \in 1..Len(inputs) :
        /\ inputs[i].kind = "Text"
        /\ \E k \in 1..Len(inputs[i].text) : ~IsWhitespace(CharAt(inputs[i].text, k))

C7_ExcludedSourcesSkip ==
    /\ [][ \A t \in Turns :
             (pc[t] = "idle" /\ pc'[t] # "idle") =>
                IF ctx'[t].source \in Excluded
                THEN /\ pc'[t] = "returned"
                     /\ ret'[t].at = "skipped"
                     /\ UNCHANGED << files, sess, stream, call, wrote >>
                ELSE IF HasText(ctx'[t].inputs)
                     THEN pc'[t] = "stream"
                     ELSE pc'[t] = "returned" /\ ret'[t].at = "no_input" ]_vars
    /\ [](\A t \in Turns :
            ctx[t].source \in Excluded =>
               /\ pc[t] = "returned"
               /\ ret[t].at = "skipped"
               /\ t \notin sess.token_usage
               /\ wrote[t] = ""
               /\ stream[t] = NoStream
               /\ call[t] = NoCall)

\* A SubAgent turn with a text input returned at the gate, while the turn of
\* another source wrote its notes.
C7_Witness ==
    \E t, u \in Turns :
        /\ ctx[t].source = "SubAgent"
        /\ HasText(ctx[t].inputs)
        /\ ret[t].at = "skipped"
        /\ ctx[u].source = "Cli"
        /\ ret[u].at = "ok"
        /\ ret[u].count > 0

(***************************************************************************)
(* C8: two calls on the same store file, neither of which read a file cut  *)
(* to the byte window, have both written a note of one key only if one of  *)
(* them read the file while the other was between its read and the end of *)
(* its append: calls that do not overlap write a common candidate once.    *)
(* The witness is the race: both calls wrote the candidate and one read of *)
(* the file returns it twice.                                              *)
(***************************************************************************)
WroteCommonKey(t, u) ==
    \E i \in 1..Len(WrittenNotes(t)), j \in 1..Len(WrittenNotes(u)) :
        Key(WrittenNotes(t)[i]) = Key(WrittenNotes(u)[j])

C4_ReadHasNoDuplicateKeys ==
    \A p \in Paths : NoDupKeys(read_memories_file(files[p]))

(***************************************************************************)
(* C9: when a turn is cancelled at an await of maybe_record_memories, its  *)
(* call has put in the file none of its batch or the whole of it: the      *)
(* header or separator and every addition.  It does not hold: the future   *)
(* can be dropped between two write_all calls.                             *)
(***************************************************************************)
RECURSIVE BatchBytes(_)
BatchBytes(additions) ==
    IF Len(additions) = 0 THEN ""
    ELSE EntryBytes(additions[1]) \o BatchBytes(Tail(additions))

C9_CancelledWritesAllOrNothing ==
    [][ \A t \in Turns :
          (pc[t] # "cancelled" /\ pc'[t] = "cancelled") =>
             \/ wrote'[t] = ""
             \/ wrote'[t] = HeadBytes(call[t].is_empty) \o BatchBytes(call[t].additions) ]_vars

(***************************************************************************)
(* C10: when append_memories returns an error, none of the notes of its    *)
(* batch is in the store file.  It does not hold: the bullet lines written *)
(* before the write_all that failed stay in the file.                      *)
(***************************************************************************)
C10_FailedAppendLeavesNoNote ==
    \A t \in Turns : ret[t].at = "append_error" => WrittenNotes(t) = << >>

(***************************************************************************)
(* C6: the entries handed to append_memories are the first                 *)
(* MAX_NEW_MEMORIES_PER_TURN parsed candidates, so one call writes at most *)
(* that many notes, every note it writes is one of those entries, and an   *)
(* entry dropped as a duplicate is not replaced by a later candidate.      *)
(***************************************************************************)
Min(a, b) == IF a <= b THEN a ELSE b

C6_EntriesAreTheFirstSix ==
    \A t \in Turns :
        pc[t] = "next" /\ pc'[t] = "read" =>
            LET candidates == parse_memory_candidates(
                                  RawOutput(stream[t].output_items, stream[t].streamed_text))
            IN  /\ call'[t].parsed = Len(candidates)
                /\ call'[t].entries =
                       SubSeq(candidates, 1, Min(Len(candidates), MAX_NEW_MEMORIES_PER_TURN))

C6_WritesWithinEntries ==
    \A t \in Turns :
        /\ Len(WrittenNotes(t)) <= MAX_NEW_MEMORIES_PER_TURN
        /\ pc[t] \in AppendPcs \/ ret[t].at = "ok" =>
              /\ Len(call[t].entries) <= MAX_NEW_MEMORIES_PER_TURN
              /\ Range(WrittenNotes(t)) \subseteq Range(call[t].entries)
        /\ ret[t].at = "ok" =>
              /\ ret[t].count = Len(WrittenNotes(t))
              /\ ret[t].count <= MAX_NEW_MEMORIES_PER_TURN

C6_AtMostSixFromTheFirstSix ==
    [][C6_EntriesAreTheFirstSix]_vars /\ []C6_WritesWithinEntries

\* More candidates than the maximum, one of the first six dropped as a
\* duplicate of a note of the file, and five notes written.
C6_Witness ==
    \E t \in Turns :
        /\ ret[t].at = "ok"
        /\ call[t].parsed > MAX_NEW_MEMORIES_PER_TURN
        /\ Len(call[t].entries) = MAX_NEW_MEMORIES_PER_TURN
        /\ ret[t].count = MAX_NEW_MEMORIES_PER_TURN - 1
        /\ WrittenNotes(t) = Tail(call[t].entries)

(***************************************************************************)
(* C2, as the specification states it: once a call of append_memories has  *)
(* returned Ok, a later call on the same path with the same entries        *)
(* returns Ok(0) and writes nothing, whatever the store file holds.  It    *)
(* does not hold: the first call's bullets hide the plain note lines it    *)
(* had read, and its bytes can push notes out of the byte window.          *)
(***************************************************************************)
\* The step of turn q that ends its read of the file without an error.
ReadDone(q) ==
    /\ pc[q] = "read"
    /\ \/ pc'[q] = "create_dir"
       \/ pc'[q] = "returned" /\ ret'[q].at = "ok"

ReturnsZero(q) ==
    /\ pc'[q] = "returned"
    /\ ret'[q] = [at |-> "ok", count |-> 0]
    /\ wrote'[q] = ""
    /\ files' = files

\* Turn p returned Ok from a call with the path and the entries of turn q.
SameCallSucceeded(p, q) ==
    /\ p # q
    /\ pc[p] = "returned" /\ ret[p].at = "ok"
    /\ call[p].path = call[q].path
    /\ call[p].entries = call[q].entries

C2_SecondAppendAddsNothing ==
    [][ \A p, q \in Turns :
          ReadDone(q) /\ SameCallSucceeded(p, q) => ReturnsZero(q) ]_vars

(***************************************************************************)
(* C2, amended: a call of append_memories returns Ok(0) and writes nothing *)
(* whenever the key of every entry is the key of a note read from the      *)
(* file; and that is the case of a call that follows a successful call on  *)
(* the same path with the same entries when the file it reads is within    *)
(* MEMORIES_MAX_BYTES and has no plain note line.  A call that returned    *)
(* Ok(0) has written nothing.                                              *)
(***************************************************************************)
AllKeysRead(q) ==
    LET existing == read_memories_file(files[call[q].path])
    IN  \A i \in 1..Len(call[q].entries) :
            \E j \in 1..Len(existing) : Key(call[q].entries[i]) = Key(existing[j])

WithinCapNoPlainLines(f) ==
    /\ Len(f.data) <= MEMORIES_MAX_BYTES
    /\ StorePlainLines(Lines(f.data)) = << >>

C2_ReadOfKnownKeysAddsNothing ==
    \A q \in Turns :
        ReadDone(q) =>
            /\ AllKeysRead(q) => ReturnsZero(q)
            /\ \A p \in Turns :
                  SameCallSucceeded(p, q) /\ WithinCapNoPlainLines(files[call[q].path])
                      => AllKeysRead(q)

C2_IdempotentOnBulletStore ==
    /\ [][C2_ReadOfKnownKeysAddsNothing]_vars
    /\ [](\A q \in Turns : ret[q] = [at |-> "ok", count |-> 0] => wrote[q] = "")

\* One call wrote notes, and the call after it with the same entries read
\* them all and returned Ok(0).
C2_Witness ==
    \E p, q \in Turns :
        /\ SameCallSucceeded(p, q)
        /\ ret[p].count > 0
        /\ ret[q] = [at |-> "ok", count |-> 0]
        /\ wrote[q] = ""
        /\ WithinCapNoPlainLines(files[call[q].path])
        /\ AllKeysRead(q)

(***************************************************************************)
(* C13: the text parsed into candidates when the stream completes is the   *)
(* join with "\n", in arrival order, of the texts of the finished message  *)
(* items consumed before Completed when there is one, and otherwise the    *)
(* concatenation in arrival order of the text deltas consumed before it;   *)
(* no event is consumed after Completed.                                   *)
(***************************************************************************)
RECURSIVE ArrivedTexts(_, _)
ArrivedTexts(arrived, kind) ==
    IF Len(arrived) = 0 THEN << >>
    ELSE IF arrived[1].kind = kind
         THEN << arrived[1].text >> \o ArrivedTexts(Tail(arrived), kind)
         ELSE ArrivedTexts(Tail(arrived), kind)

ExpectedRawOutput(arrived) ==
    IF \E i \in 1..Len(arrived) : arrived[i].kind = "item"
    THEN Join(ArrivedTexts(arrived, "item"), "\n")
    ELSE Join(ArrivedTexts(arrived, "delta"), "")

FirstEntries(candidates) ==
    SubSeq(candidates, 1, Min(Len(candidates), MAX_NEW_MEMORIES_PER_TURN))

C13_HandedAtCompleted ==
    \A t \in Turns :
        /\ t \in sess'.token_usage \ sess.token_usage =>
              LET candidates == parse_memory_candidates(ExpectedRawOutput(stream[t].arrived))
              IN  IF candidates = << >>
                  THEN pc'[t] = "returned" /\ ret'[t].at = "no_candidates"
                  ELSE /\ pc'[t] = "read"
                       /\ call'[t].entries = FirstEntries(candidates)
                       /\ stream'[t].arrived = stream[t].arrived
        /\ stream'[t].arrived # stream[t].arrived /\ stream'[t].arrived # << >> =>
              pc[t] = "next" /\ t \notin sess.token_usage

C13_RawOutputInLoop ==
    \A t \in Turns :
        /\ pc[t] = "next" =>
              RawOutput(stream[t].output_items, stream[t].streamed_text)
                  = ExpectedRawOutput(stream[t].arrived)
        /\ pc[t] = "read" =>
              call[t].entries =
                  FirstEntries(parse_memory_candidates(ExpectedRawOutput(stream[t].arrived)))

C13_ItemsBeforeDeltas ==
    [][C13_HandedAtCompleted]_vars /\ []C13_RawOutputInLoop

\* A delta, then a finished item, then Completed: the candidates are those
\* of the item alone.
C13_Witness ==
    \E t \in Turns :
        /\ pc[t] = "read"
        /\ stream[t].arrived = << [kind |-> "delta", text |-> "- b"],
                                  [kind |-> "item", text |-> "A\nab"] >>
        /\ call[t].entries = << "A", "ab" >>

(***************************************************************************)
(* C11: the Reader reads the global path first and then the project path   *)
(* of the Config's working directory when there is one that is not the     *)
(* global path; its entries are the trimmed non-blank notes its reads      *)
(* returned, each key once, in the order and the casing of its first       *)
(* occurrence; it returns None exactly when there is no entry, and         *)
(* otherwise MEMORIES_HEADER and one "- <note>" line per entry.            *)
(***************************************************************************)
\* The trimmed non-blank notes of the reads so far, in the order read.
RECURSIVE NonBlank(_)
NonBlank(values) ==
    IF Len(values) = 0 THEN << >>
    ELSE IF Trim(values[1]) = "" THEN NonBlank(Tail(values))
    ELSE << Trim(values[1]) >> \o NonBlank(Tail(values))

RECURSIVE NotesRead(_)
NotesRead(reads) ==
    IF Len(reads) = 0 THEN << >>
    ELSE NonBlank(reads[1].values) \o NotesRead(Tail(reads))

RECURSIVE Rendered(_)
Rendered(entries) ==
    IF Len(entries) = 0 THEN ""
    ELSE "\n- " \o entries[1] \o Rendered(Tail(entries))

FirstSeenMerge(entries, notes) ==
    /\ NoDupKeys(entries)
    /\ \A i \in 1..Len(notes) : \E k \in 1..Len(entries) : Key(entries[k]) = Key(notes[i])
    /\ \A k \in 1..Len(entries) :
          /\ \E i \in 1..Len(notes) : Key(notes[i]) = Key(entries[k])
          /\ entries[k] = notes[FirstPos(notes, entries[k])]
    /\ \A k, l \in 1..Len(entries) :
          k < l => FirstPos(notes, entries[k]) < FirstPos(notes, entries[l])

C11_MergedAcrossPaths ==
    /\ rd.pc # "idle" =>
          /\ rd.paths = IF config_cwd = "in_repo" THEN << "global", "project" >>
                        ELSE << "global" >>
          /\ \A i \in 1..Len(rd.reads) : rd.reads[i].path = rd.paths[i]
          /\ FirstSeenMerge(rd.entries, NotesRead(rd.reads))
    /\ rd.pc = "done" =>
          /\ Len(rd.reads) = Len(rd.paths)
          /\ rd.section.some <=> rd.entries # << >>
          /\ rd.section.some => rd.section.value = MEMORIES_HEADER \o Rendered(rd.entries)

\* Both files read, the project's "A" dropped for the global's "a".
C11_Witness ==
    /\ rd.pc = "done"
    /\ Len(rd.reads) = 2
    /\ rd.reads[1].values = << "a", "c" >>
    /\ "A" \in Range(rd.reads[2].values)
    /\ rd.entries = << "a", "c" >>
    /\ rd.section = Some("## Memories\n- a\n- c")

(***************************************************************************)
(* C12: the read of a file that does not exist succeeds with no note; a    *)
(* read that fails adds nothing and the Reader goes on: it reads every     *)
(* path of its read set, ends, and its entries hold the key of every note  *)
(* that a successful read returned.                                        *)
(***************************************************************************)
C12_ReadStep ==
    Len(rd'.reads) = Len(rd.reads) + 1 =>
        LET read == rd'.reads[Len(rd'.reads)]
        IN  /\ rd.pc = "reading" /\ rd'.pc \in {"reading", "done"}
            /\ rd'.pc = "done" <=> Len(rd'.reads) = Len(rd.paths)
            /\ read.ok /\ ~files[read.path].exists => read.values = << >>
            /\ ~read.ok => read.values = << >> /\ rd'.entries = rd.entries
            /\ IsPrefix(rd.entries, rd'.entries)

C12_FailedReadsOnly ==
    /\ rd.pc \in {"idle", "reading", "done"}
    /\ rd.pc = "done" => Len(rd.reads) = Len(rd.paths)
    /\ \A i \in 1..Len(rd.reads) :
          rd.reads[i].ok =>
              \A j \in 1..Len(rd.reads[i].values) :
                  Trim(rd.reads[i].values[j]) # "" =>
                      \E k \in 1..Len(rd.entries) :
                          Key(rd.entries[k]) = Key(rd.reads[i].values[j])

C12_ReaderSurvivesReadErrors ==
    [][C12_ReadStep]_vars /\ []C12_FailedReadsOnly

\* The read of the global file failed, the notes of the project file are
\* rendered.
C12_Witness ==
    /\ rd.pc = "done"
    /\ Len(rd.reads) = 2
    /\ ~rd.reads[1].ok
    /\ rd.reads[2].ok /\ rd.reads[2].values # << >>
    /\ rd.entries = rd.reads[2].values
    /\ rd.section.some

(***************************************************************************)
(* C14: a read of a store file longer than MEMORIES_MAX_BYTES, by the      *)
(* Reader or by append_memories, returns the notes of the file made of its *)
(* last MEMORIES_MAX_BYTES bytes, and a read of a shorter file the notes   *)
(* of the whole file; append_memories skips exactly the entries whose key  *)
(* is the key of one of those notes or of an earlier entry.                *)
(***************************************************************************)
\* The last n bytes of data.
LastBytes(data, n) == SubSeq(data, Len(data) - n + 1, Len(data))

\* The notes of file f, parsed as a whole when it is within the cap and as
\* its trailing window otherwise.
WindowNotes(f) ==
    IF ~f.exists \/ f.data = "" THEN << >>
    ELSE IF Len(f.data) > MEMORIES_MAX_BYTES
         THEN parse_memories(LastBytes(f.data, MEMORIES_MAX_BYTES))
         ELSE parse_memories(f.data)

HasKey(notes, note) == \E i \in 1..Len(notes) : Key(notes[i]) = Key(note)

C14_ReaderReadsWindow ==
    Len(rd'.reads) = Len(rd.reads) + 1 =>
        LET read == rd'.reads[Len(rd'.reads)]
        IN  read.ok => read.values = WindowNotes(files[read.path])

C14_WriterReadsWindow ==
    \A t \in Turns :
        pc[t] = "read" /\ (pc'[t] = "create_dir" \/ (pc'[t] = "returned" /\ ret'[t].at = "ok")) =>
            LET notes   == WindowNotes(files[call[t].path])
                entries == call[t].entries
                added   == IF pc'[t] = "create_dir" THEN call'[t].additions ELSE << >>
            IN  /\ pc'[t] = "create_dir" => call'[t].existing = notes
                /\ \A i \in 1..Len(entries) :
                      HasKey(added, entries[i]) <=> ~HasKey(notes, entries[i])

C14_ParsedAsTrailingWindow ==
    [][C14_ReaderReadsWindow /\ C14_WriterReadsWindow]_vars

\* A file longer than the cap whose first note, g, lies before the window:
\* the Reader did not return g, and append_memories is adding g again.
C14_Witness ==
    \E t \in Turns :
        /\ pc[t] \in AppendPcs
        /\ Len(files[call[t].path].data) > MEMORIES_MAX_BYTES
        /\ StoreBullets(Lines(files[call[t].path].data))[1] = "g"
        /\ "g" \in Range(call[t].additions)
        /\ rd.pc = "done"
        /\ Len(rd.reads) = 2
        /\ rd.reads[2].path = call[t].path
        /\ rd.reads[2].ok /\ rd.reads[2].values # << >>
        /\ "g" \notin Range(rd.reads[2].values)

(***************************************************************************)
(* C19: the path a turn writes to is one of the paths the Reader reads,    *)
(* and a Reader that is called after the turn's call returned Ok, and      *)
(* whose reads all succeed, has among its entries the key of every note    *)
(* the call wrote.  It does not hold: the write path comes from the turn's *)
(* working directory and the read set from the Config's.                   *)
(***************************************************************************)
C19_WrittenNotesAreRead ==
    \A t \in Turns :
        /\ call[t].path # "none" => call[t].path \in Range(memory_paths(config_cwd))
        /\ ( /\ rd.pc = "done"
             /\ t \in rd.began_after
             /\ \A i \in 1..Len(rd.reads) : rd.reads[i].ok )
           => \A i \in 1..Len(WrittenNotes(t)) : HasKey(rd.entries, WrittenNotes(t)[i])

(***************************************************************************)
(* C20: no entry handed to append_memories, no addition, no note a call    *)
(* wrote and no bullet of a store file has the key of                      *)
(* NO_MEMORIES_RESPONSE.  It does not hold: a line "- NO_MEMORIES" is      *)
(* compared with the sentinel before its marker is stripped.               *)
(***************************************************************************)
IsSentinel(note) == Key(note) = to_ascii_lowercase(NO_MEMORIES_RESPONSE)

C20_SentinelNeverPersisted ==
    /\ \A t \in Turns :
          \A note \in Range(call[t].entries) \cup Range(call[t].additions)
                        \cup Range(WrittenNotes(t)) : ~IsSentinel(note)
    /\ \A p \in Paths :
          \A note \in Range(StoreBullets(Lines(files[p].data))) : ~IsSentinel(note)

(***************************************************************************)
(* C17: a store file that the calls of append_memories made from an absent *)
(* or empty file, or that already began with the header, has               *)
(* MEMORIES_FILE_HEADER as its first line and on no other line.  It does   *)
(* not hold: two calls that both find the file empty both write the        *)
(* header, and a header write that fails leaves a part of it.              *)
(***************************************************************************)
\* The file did not start as a file of plain note lines.
StartedWithoutPlainLines(f) == ~StartsWith(f.data, "a\n")

C17_OneHeaderFirst ==
    \A p \in Paths :
        LET lines == Lines(files[p].data)
        IN  files[p].data # "" /\ StartedWithoutPlainLines(files[p]) =>
                /\ lines[1] = MEMORIES_FILE_HEADER
                /\ \A i \in 2..Len(lines) : lines[i] # MEMORIES_FILE_HEADER

(***************************************************************************)
(* C18, as the specification states it: a step that changes a store file   *)
(* shorter than MEMORIES_MAX_BYTES leaves every note that a read returned  *)
(* before it among the notes a read returns after it.  It does not hold:   *)
(* the first bullet appended to a file of plain note lines hides them, and *)
(* an append that takes the file over the cap moves notes out of the       *)
(* window.                                                                 *)
(***************************************************************************)
C18_ReadableStaysReadable ==
    [][ \A p \in Paths :
          Len(files[p].data) < MEMORIES_MAX_BYTES /\ files'[p] # files[p] =>
              Range(read_memories_file(files[p])) \subseteq Range(read_memories_file(files'[p])) ]_vars

(***************************************************************************)
(* C18, amended: when calls of append_memories do not overlap, a step that *)
(* changes a store file which has a bullet line or no plain note line, and *)
(* which is within MEMORIES_MAX_BYTES after the step, leaves the notes a   *)
(* read returned before it as the first notes a read returns after it.     *)
(***************************************************************************)
BulletsOrNoPlainLines(f) ==
    \/ StoreBullets(Lines(f.data)) # << >>
    \/ StorePlainLines(Lines(f.data)) = << >>

C18_BulletNotesStayReadable ==
    [][ \A p \in Paths :
          ( /\ files'[p] # files[p]
            /\ BulletsOrNoPlainLines(files[p])
            /\ Len(files'[p].data) <= MEMORIES_MAX_BYTES )
          => IsPrefix(read_memories_file(files[p]), read_memories_file(files'[p])) ]_vars

\* A call appended a note to a file of bullets, and the note the file had
\* is read before the new one.
C18_Witness ==
    \E t \in Turns :
        /\ ret[t].at = "ok"
        /\ wrote[t] = "\n- ab\n"
        /\ files[call[t].path].data = "# Memories\n- A\n\n- ab\n"
        /\ read_memories_file(files[call[t].path]) = << "A", "ab" >>

(***************************************************************************)
(* C15, as the specification states it: of a text with a bullet line       *)
(* parse_memories returns the trimmed bodies of the bullet lines in order  *)
(* and nothing else, and of a text without one every line that is neither  *)
(* blank nor a heading, verbatim and in order.  It does not hold: a plain  *)
(* line is returned trimmed.                                               *)
(***************************************************************************)
\* The indexes of a set in increasing order.
RECURSIVE Ascending(_)
Ascending(indexes) ==
    IF indexes = {} THEN << >>
    ELSE LET m == CHOOSE i \in indexes : \A j \in indexes : i <= j
         IN  << m >> \o Ascending(indexes \ {m})

HasMarker(line) == StartsWith(line, "- ") \/ StartsWith(line, "* ")

\* The text of a line after its marker.
Body(line) == Trim(SubSeq(line, 3, Len(line)))

BulletLines(lines) == { i \in 1..Len(lines) : HasMarker(Trim(lines[i])) }

PlainLines(lines) ==
    { i \in 1..Len(lines) :
        /\ Trim(lines[i]) # ""
        /\ ~StartsWith(Trim(lines[i]), "#")
        /\ ~HasMarker(Trim(lines[i])) }

BulletBodies(lines) ==
    LET at == Ascending(BulletLines(lines))
    IN  [k \in 1..Len(at) |-> Body(Trim(lines[at[k]]))]

C15_PlainLinesVerbatim ==
    parsed.by = "parse_memories" =>
        LET lines == Lines(input)
            at    == Ascending(PlainLines(lines))
        IN  IF BulletLines(lines) # {}
            THEN parsed.out = BulletBodies(lines)
            ELSE parsed.out = [k \in 1..Len(at) |-> lines[at[k]]]

(***************************************************************************)
(* C15, amended: of a text with a bullet line parse_memories returns the   *)
(* trimmed bodies of the bullet lines in order and nothing else, and of a  *)
(* text without one the trimmed text of every line that is neither blank   *)
(* nor a heading, in order.                                                *)
(***************************************************************************)
C15_BulletsElseTrimmedLines ==
    parsed.by = "parse_memories" =>
        LET lines == Lines(input)
            at    == Ascending(PlainLines(lines))
        IN  IF BulletLines(lines) # {}
            THEN parsed.out = BulletBodies(lines)
            ELSE parsed.out = [k \in 1..Len(at) |-> Trim(lines[at[k]])]

\* A plain line before two bullet lines: the bodies of the bullets alone.
C15_Witness ==
    /\ parsed.by = "parse_memories"
    /\ input = " a \n* b\n- a"
    /\ parsed.out = << "b", "a" >>

(***************************************************************************)
(* C16, as the specification states it: parse_memory_candidates returns    *)
(* no entry for a text that is blank or is the sentinel in any casing, and *)
(* otherwise the non-blank lines, their marker stripped, each key once in  *)
(* the order and casing of its first occurrence.  It does not hold: a line *)
(* that is the sentinel is left out as well.                               *)
(***************************************************************************)
IsSentinelText(str) == to_ascii_lowercase(str) = to_ascii_lowercase(NO_MEMORIES_RESPONSE)

\* A line without its marker.
Stripped(line) == IF HasMarker(line) THEN Body(line) ELSE line

NonBlankLines(lines) == { i \in 1..Len(lines) : Trim(lines[i]) # "" }

NonSentinelLines(lines) ==
    { i \in 1..Len(lines) : Trim(lines[i]) # "" /\ ~IsSentinelText(Trim(lines[i])) }

StrippedLines(lines, indexes) ==
    LET at == Ascending(indexes)
    IN  [k \in 1..Len(at) |-> Stripped(Trim(lines[at[k]]))]

C16_EveryNonBlankLine ==
    parsed.by = "parse_memory_candidates" =>
        LET trimmed == Trim(input)
            lines   == Lines(trimmed)
        IN  IF trimmed = "" \/ IsSentinelText(trimmed)
            THEN parsed.out = << >>
            ELSE FirstSeenMerge(parsed.out, StrippedLines(lines, NonBlankLines(lines)))

(***************************************************************************)
(* C16, amended: parse_memory_candidates returns no entry for a text that  *)
(* is blank or is the sentinel in any casing, and otherwise the lines that *)
(* are neither blank nor the sentinel in any casing, their marker          *)
(* stripped, each key once in the order and casing of its first            *)
(* occurrence; no two entries have the same key and none is blank.         *)
(***************************************************************************)
C16_NonBlankNonSentinelLines ==
    parsed.by = "parse_memory_candidates" =>
        LET trimmed == Trim(input)
            lines   == Lines(trimmed)
        IN  /\ NoDupKeys(parsed.out)
            /\ \A k \in 1..Len(parsed.out) : Trim(parsed.out[k]) # ""
            /\ IF trimmed = "" \/ IsSentinelText(trimmed)
               THEN parsed.out = << >>
               ELSE FirstSeenMerge(parsed.out, StrippedLines(lines, NonSentinelLines(lines)))

\* A bullet, the sentinel and the bullet's note in another casing: one
\* entry, in the first casing.
C16_Witness ==
    /\ parsed.by = "parse_memory_candidates"
    /\ input = "- a\nNO_MEMORIES\nA"
    /\ parsed.out = << "a" >>

=============================================================================
